---- MODULE Spec2Model ----
(***************************************************************************)
(* Model of src/pipeline/pipeline.py: capability detection at module load, *)
(* the definition of the four step functions and of the pipeline graph,    *)
(* the entry point, the scoped error handler and the data quality check.   *)
(*                                                                         *)
(* The optional libraries are external: a library is modelled by whether   *)
(* its import resolves (env.installed) and by the exception a call into it *)
(* raises.  The cluster orchestrator is modelled at its interface: it runs *)
(* a task once every task it depends on has succeeded, and a task runs the *)
(* body of the function bound under the step's name after module load.     *)
(***************************************************************************)
EXTENDS Integers, Sequences, FiniteSets, TLC

(* ---------- names ---------- *)

Libraries == {"mlflow", "sklearn", "pandas", "numpy", "kfp"}

Steps == {"generate", "preprocess", "train", "evaluate"}

StepOrder == <<"generate", "preprocess", "train", "evaluate">>

\* Artifact paths threaded through the pipeline graph.
Paths == {"raw", "train", "validation", "test", "scaler", "model", "metrics", "evaluation"}

\* Exceptions derived from Exception, and those derived from BaseException only.
Exceptions == {"ImportError", "ValueError", "KeyError", "FileNotFoundError",
               "DataError", "AttributeError", "MlflowException", "NameError",
               "ApiException"}

BaseOnlyExceptions == {"KeyboardInterrupt", "SystemExit"}

NoExc == "none"

(* ---------- bounds of the model ---------- *)

\* Largest missing-value count and duplicate-row count given to the quality check.
MaxMissing == 2

MaxDuplicates == 2

\* Row counts given to the quality check range over 100-RowSpan .. 100+RowSpan, and 0.
RowSpan == 2

\* Deepest nesting of error_handler regions (a step around a quality check is 2).
MaxDepth == 2

(* ---------- program constants ---------- *)

\* validate_data_quality: fewer rows than this is a "Low sample count".
LowSampleThreshold == 100

\* feature_names of generate_synthetic_data has ten entries.
FeatureNames == {"tempo_bpm", "energy_level", "valence_score", "danceability",
                 "acousticness", "instrumentalness", "liveness_factor",
                 "speechiness", "loudness_db", "duration_seconds"}

\* feature_names of the unreachable generator left after the first preprocess_data.
LegacyFeatureNames == {"tempo", "energy", "valence", "danceability",
                       "acousticness", "instrumentalness", "liveness",
                       "speechiness", "loudness", "duration_ms"}

MetadataColumns == {"data_source", "created_at", "pipeline_version"}

VARIABLES
    env,             \* the process environment: installed libraries, os.environ, sys.argv, service faults
    DEPENDENCIES,    \* DEPENDENCIES[lib]['available']
    DATA_CONFIG,     \* DATA_CONFIG, resolved at module load
    pc,              \* position of the process in module load / entry point
    preprocess_data, \* which definition the name preprocess_data is bound to
    status,          \* per step: pending, running, succeeded, failed
    raised,          \* per step: the exception that left the step, or NoExc
    result,          \* per step: the returned tuple, <<>> when nothing was returned
    files,           \* the artifact store: path -> artifact
    dirs,            \* paths whose parent directory exists
    log,             \* entries written by logger, in order
    stdout,          \* what the entry point printed, in order
    tier,            \* per step: the path its body took: none, full, degraded
    frames,          \* stack of open error_handler regions
    gate,            \* input and report of a direct quality check
    cluster,         \* calls the entry point made on the cluster client, in order
    standard_scaler  \* the StandardScaler object of the last preprocess invocation

vars == <<env, DEPENDENCIES, DATA_CONFIG, pc, preprocess_data, status, raised,
          result, files, dirs, log, stdout, tier, frames, gate, cluster, standard_scaler>>

(* ---------- artifacts ---------- *)

Absent == [kind |-> "absent", content |-> "none", columns |-> {}, numeric |-> {}, rows |-> 0]

Csv(cols, num, n) == [kind |-> "csv", content |-> "table", columns |-> cols, numeric |-> num, rows |-> n]

Json(what, n) == [kind |-> "json", content |-> what, columns |-> {}, numeric |-> {}, rows |-> n]

\* A pickled object; columns are the feature names the object was fitted on.
Pickle(what, cols) == [kind |-> "pickle", content |-> what, columns |-> cols, numeric |-> cols, rows |-> 0]

(* ---------- environments ---------- *)

\* numpy is a hard dependency of pandas and of scikit-learn.
Installations == {s \in SUBSET Libraries :
                    /\ "pandas" \in s => "numpy" \in s
                    /\ "sklearn" \in s => "numpy" \in s}

TrackingCalls == {"set_tracking_uri", "set_experiment", "start_run",
                  "log_param", "log_metric", "log_model"}

SubmissionCalls == {"Client", "get_experiment", "run_pipeline"}

\* TEST_SIZE and VALIDATION_SIZE are fractions, held here in hundredths.
Environments == [installed    : Installations,
                 DATA_SAMPLES : {1000, 50},
                 DATA_FEATURES: {10, 12},
                 TEST_SIZE    : {20, 60, 100},
                 VALIDATION_SIZE : {10, 50},
                 run_flag     : BOOLEAN,
                 trackFault   : TrackingCalls \cup {"none"},
                 submitFault  : SubmissionCalls \cup {"none"}]

DefaultDataConfig == [n_samples |-> 1000, n_features |-> 10, n_classes |-> 3,
                      test_size |-> 20, validation_size |-> 10]

(* ---------- capability detection (module load) ---------- *)

\* One try block imports pandas and numpy together: both flags are set or neither.
check_and_import_dependencies(installed) ==
    [lib \in Libraries |->
        CASE lib = "mlflow"  -> "mlflow" \in installed
          [] lib = "pandas"  -> {"pandas", "numpy"} \subseteq installed
          [] lib = "numpy"   -> {"pandas", "numpy"} \subseteq installed
          [] lib = "sklearn" -> "sklearn" \in installed
          [] lib = "kfp"     -> "kfp" \in installed]

\* The condition that opens the full branch of generate_synthetic_data and of the
\* first preprocess_data.
FullBranch(deps) == deps["pandas"] /\ deps["sklearn"]

\* DATA_CONFIG as read from os.environ.
ResolveDataConfig(e) ==
    [n_samples |-> e.DATA_SAMPLES, n_features |-> e.DATA_FEATURES, n_classes |-> 3,
     test_size |-> e.TEST_SIZE, validation_size |-> e.VALIDATION_SIZE]

(* ---------- logging and the scoped error handler ---------- *)

LogEntry(k, name, exc) == [kind |-> k, step |-> name, exc |-> exc]

\* What error_handler logs on entry.
HandlerEntry(step_name) == <<LogEntry("start", step_name, NoExc)>>

\* What error_handler logs when the region is left with exception exc (NoExc: normally).
\* "except Exception" does not see exceptions derived from BaseException only.
HandlerExit(step_name, exc) ==
    IF exc = NoExc THEN <<LogEntry("completed", step_name, NoExc)>>
    ELSE IF exc \in Exceptions THEN <<LogEntry("failed", step_name, exc)>>
    ELSE <<>>

\* The except clause without its raise.
HandlerSwallows(exc) == NoExc

\* The exception that leaves error_handler when exc left its body: a bare raise.
HandlerReraise(exc) == exc

\* A body run inside error_handler(step_name): its outcome with the region's entries.
error_handler(step_name, body) ==
    [body EXCEPT !.exc = HandlerReraise(body.exc),
                 !.log = HandlerEntry(step_name) \o body.log \o HandlerExit(step_name, body.exc)]

(* ---------- the data quality check ---------- *)

\* An issue is the message's label and the count it prints.
MissingIssue(m) == IF m > 0 THEN <<<<"Missing values", m>>>> ELSE <<>>

DuplicateIssue(d) == IF d > 0 THEN <<<<"Duplicate rows", d>>>> ELSE <<>>

\* The threshold taken inclusively.
LowSampleIssueInclusive(n) == IF n <= LowSampleThreshold THEN <<<<"Low sample count", n>>>> ELSE <<>>

LowSampleIssue(n) == IF n < LowSampleThreshold THEN <<<<"Low sample count", n>>>> ELSE <<>>

\* The body of validate_data_quality: df is [n_rows, missing_values, duplicate_rows].
QualityReport(df, deps) ==
    IF ~deps["pandas"]
    THEN [status |-> "skipped", reason |-> "pandas not available", issues |-> <<>>]
    ELSE LET issues == MissingIssue(df.missing_values) \o DuplicateIssue(df.duplicate_rows)
                         \o LowSampleIssue(df.n_rows)
         IN [status |-> IF issues = <<>> THEN "passed" ELSE "warning",
             reason |-> "none", issues |-> issues]

\* The log of one call of validate_data_quality(df, step_name).
validate_data_quality(df, step_name, deps) ==
    LET rep == QualityReport(df, deps)
        name == step_name \o " - Data Quality Validation"
    IN HandlerEntry(name)
         \o (IF rep.status = "skipped" THEN <<>> ELSE <<LogEntry("quality", rep.status, NoExc)>>)
         \o HandlerExit(name, NoExc)

(* ---------- the artifact store ---------- *)

Dirs == {"data", "models", "metrics"}

Parent(p) == CASE p \in {"raw", "train", "validation", "test"} -> "data"
               [] p \in {"scaler", "model"} -> "models"
               [] OTHER -> "metrics"

\* Path(p).parent.mkdir(parents=True, exist_ok=True)
Mkdir(d, p) == d \cup {Parent(p)}

\* Outcome of a step body.
Outcome(exc, res, f, d, l, t) ==
    [exc |-> exc, result |-> res, files |-> f, dirs |-> d, log |-> l, tier |-> t]

\* Writes done in order; w[i] = <<path, artifact, mkdir first?>>.  open() for
\* writing raises FileNotFoundError when the parent directory does not exist.
RECURSIVE WriteAll(_, _, _)
WriteAll(f, d, w) ==
    IF w = <<>> THEN [ok |-> TRUE, files |-> f, dirs |-> d]
    ELSE LET p  == w[1][1]
             d1 == IF w[1][3] THEN Mkdir(d, p) ELSE d
         IN IF Parent(p) \notin d1
            THEN [ok |-> FALSE, files |-> f, dirs |-> d1]
            ELSE WriteAll([f EXCEPT ![p] = w[1][2]], d1, Tail(w))

\* The exception of reading path p as a table with pandas, NoExc when it loads.
ReadCsvError(f, p) ==
    CASE f[p].kind = "absent" -> "FileNotFoundError"
      [] f[p].kind = "csv"    -> NoExc
      [] OTHER                -> "DataError"

\* ceil(n / k), the size scikit-learn gives the held-out part of a split.
CeilDiv(n, k) == (n + k - 1) \div k

(* ---------- the step bodies ---------- *)
\* st is what a body reads: [installed, deps, cfg, fault, files, dirs].

GeneratedColumns == FeatureNames \cup {"therapy_category", "therapy_category_encoded"} \cup MetadataColumns

\* therapy_category holds the labels as strings; the metadata columns hold strings.
GeneratedNumeric == FeatureNames \cup {"therapy_category_encoded"}

\* generate_synthetic_data(output_data_path), def at line 331.
generate_synthetic_data(st, out) ==
    error_handler("Data Generation",
        IF FullBranch(st.deps)
        THEN IF st.cfg.n_features # Cardinality(FeatureNames)
             \* fewer than 8 + 2 features, or a frame of n_features columns under ten names
             THEN Outcome("ValueError", <<>>, st.files, st.dirs, <<>>, "full")
             ELSE LET w == WriteAll(st.files, st.dirs,
                               <<<<out, Csv(GeneratedColumns, GeneratedNumeric, st.cfg.n_samples), TRUE>>>>)
                  IN IF ~w.ok
                     THEN Outcome("FileNotFoundError", <<>>, w.files, w.dirs, <<>>, "full")
                     ELSE Outcome(NoExc, <<st.cfg.n_samples, Cardinality(FeatureNames)>>, w.files, w.dirs,
                                  validate_data_quality(
                                      [n_rows |-> st.cfg.n_samples, missing_values |-> 0, duplicate_rows |-> 0],
                                      "Data Generation", st.deps),
                                  "full")
        ELSE LET w == WriteAll(st.files, st.dirs, <<<<out, Json("mock_data", st.cfg.n_samples), TRUE>>>>)
             IN IF ~w.ok
                THEN Outcome("FileNotFoundError", <<>>, w.files, w.dirs, <<>>, "degraded")
                ELSE Outcome(NoExc, <<st.cfg.n_samples, st.cfg.n_features>>, w.files, w.dirs, <<>>, "degraded"))

\* Columns the first preprocess_data keeps out of the features.
NonFeatureColumns == {"therapy_category", "therapy_category_encoded"} \cup MetadataColumns

EngineeredColumns == {"tempo_energy_ratio", "valence_energy_interaction", "acoustic_speech_balance"}

MockSizes == <<800, 100, 100>>

\* StandardScaler(): nothing fitted, no call made.
NoScaler == [fits |-> 0, fitted_on |-> "none", n_samples_seen |-> 0, calls |-> <<>>]

\* StandardScaler.fit_transform(X): the parameters are recomputed from X, a split of
\* n rows, and X is returned scaled.
fit_transform(sc, split, n) ==
    [fits |-> sc.fits + 1, fitted_on |-> split, n_samples_seen |-> n,
     calls |-> Append(sc.calls, <<"fit_transform", split>>)]

TransformRefits(sc, split, n) == fit_transform(sc, split, n)

\* StandardScaler.transform(X): X is returned scaled with the parameters as they are.
transform(sc, split, n) == [sc EXCEPT !.calls = Append(@, <<"transform", split>>)]

\* pickle.dump of an object holding the scaler: the fitted parameters go with it.
PickledScaler(what, cols, sc) == [Pickle(what, cols) EXCEPT !.rows = sc.n_samples_seen]

\* Lines 517-520: the scaler after the three scaling calls of the def at line 437.
scaling_437(n_train, n_val, n_test) ==
    transform(transform(fit_transform(NoScaler, "train", n_train), "validation", n_val), "test", n_test)

\* Lines 656-658: the scaler after the two scaling calls of the def at line 631.
scaling_631(n_train, n_test) ==
    transform(fit_transform(NoScaler, "train", n_train), "test", n_test)

\* Lines 498-514: test_size is a fraction strictly between 0 and 1, and so is
\* val_size_adjusted = validation_size / (1 - test_size), in hundredths here.
ValidShare(cfg) ==
    /\ 0 < cfg.test_size /\ cfg.test_size < 100
    /\ 0 < cfg.validation_size /\ cfg.validation_size < 100 - cfg.test_size

\* preprocess_data(input, train, test, validation, scaler), the def at line 437.
preprocess_data_437(st, inp, train, test, validation, scaler) ==
    error_handler("Data Preprocessing",
        IF FullBranch(st.deps)
        THEN LET src  == st.files[inp]
                 feat == src.columns \ NonFeatureColumns
                 X    == IF Cardinality(feat) >= 4 THEN feat \cup EngineeredColumns ELSE feat
                 n_test == CeilDiv(src.rows * st.cfg.test_size, 100)
                 n_val  == IF ValidShare(st.cfg)
                           THEN CeilDiv((src.rows - n_test) * st.cfg.validation_size,
                                        100 - st.cfg.test_size)
                           ELSE 0
                 n_train == src.rows - n_test - n_val
                 outc == X \cup {"therapy_category_encoded", "split_type", "processing_metadata"}
                 outn == X \cup {"therapy_category_encoded"}
                 gate_in == validate_data_quality(
                                [n_rows |-> src.rows, missing_values |-> 0, duplicate_rows |-> 0],
                                "Preprocessing Input", st.deps)
                 w == WriteAll(st.files, st.dirs,
                               << <<train, Csv(outc, outn, n_train), TRUE>>,
                                  <<validation, Csv(outc, outn, n_val), TRUE>>,
                                  <<test, Csv(outc, outn, n_test), TRUE>>,
                                  <<scaler, PickledScaler("scaler_data", X, scaling_437(n_train, n_val, n_test)), TRUE>> >>)
             IN IF ReadCsvError(st.files, inp) # NoExc
                THEN Outcome(ReadCsvError(st.files, inp), <<>>, st.files, st.dirs, <<>>, "full")
                ELSE IF "therapy_category" \notin src.columns
                THEN Outcome("ValueError", <<>>, st.files, st.dirs, gate_in, "full")
                \* train_test_split takes a float test_size strictly between 0 and 1
                ELSE IF ~ValidShare(st.cfg)
                THEN Outcome("ValueError", <<>>, st.files, st.dirs, gate_in, "full")
                ELSE IF ~(feat \subseteq src.numeric) \/ n_train < 1 \/ n_val < 1
                THEN Outcome("ValueError", <<>>, st.files, st.dirs, gate_in, "full")
                ELSE IF ~w.ok
                THEN Outcome("FileNotFoundError", <<>>, w.files, w.dirs, gate_in, "full")
                ELSE Outcome(NoExc, <<n_train, n_val, n_test>>, w.files, w.dirs,
                             gate_in \o validate_data_quality(
                                            [n_rows |-> n_train, missing_values |-> 0, duplicate_rows |-> 0],
                                            "Preprocessing Output - train", st.deps)
                                     \o validate_data_quality(
                                            [n_rows |-> n_val, missing_values |-> 0, duplicate_rows |-> 0],
                                            "Preprocessing Output - validation", st.deps)
                                     \o validate_data_quality(
                                            [n_rows |-> n_test, missing_values |-> 0, duplicate_rows |-> 0],
                                            "Preprocessing Output - test", st.deps),
                             "full")
        ELSE LET w == WriteAll(st.files, st.dirs,
                               << <<train, Json("mock", MockSizes[1]), TRUE>>,
                                  <<validation, Json("mock", MockSizes[2]), TRUE>>,
                                  <<test, Json("mock", MockSizes[3]), TRUE>>,
                                  <<scaler, Json("mock", MockSizes[3]), TRUE>> >>)
             IN IF ~w.ok
                THEN Outcome("FileNotFoundError", <<>>, w.files, w.dirs, <<>>, "degraded")
                ELSE Outcome(NoExc, MockSizes, w.files, w.dirs, <<>>, "degraded"))

\* The libraries a body imports unconditionally all resolve.
ImportsResolve(st, libs) == libs \subseteq st.installed

\* preprocess_data(input, train, test, scaler), the def at line 631: no branch on
\* DEPENDENCIES, no error_handler, no mkdir, two splits.
preprocess_data_631(st, inp, train, test, scaler) ==
    LET src    == st.files[inp]
        X      == src.columns \ {"therapy_category"}
        n_test == CeilDiv(src.rows, 5)
        n_train == src.rows - n_test
        w == WriteAll(st.files, st.dirs,
                      << <<train, Csv(src.columns, src.numeric, n_train), FALSE>>,
                         <<test, Csv(src.columns, src.numeric, n_test), FALSE>>,
                         <<scaler, PickledScaler("scaler", X, scaling_631(n_train, n_test)), FALSE>> >>)
    IN IF ~ImportsResolve(st, {"pandas", "sklearn"})
       THEN Outcome("ImportError", <<>>, st.files, st.dirs, <<>>, "full")
       ELSE IF ReadCsvError(st.files, inp) # NoExc
       THEN Outcome(ReadCsvError(st.files, inp), <<>>, st.files, st.dirs, <<>>, "full")
       ELSE IF "therapy_category" \notin src.columns
       THEN Outcome("KeyError", <<>>, st.files, st.dirs, <<>>, "full")
       \* StandardScaler.fit_transform converts every column of X to float
       ELSE IF ~(X \subseteq src.numeric) \/ n_train < 1
       THEN Outcome("ValueError", <<>>, st.files, st.dirs, <<>>, "full")
       ELSE IF ~w.ok
       THEN Outcome("FileNotFoundError", <<>>, w.files, w.dirs, <<>>, "full")
       ELSE Outcome(NoExc, <<n_train, n_test>>, w.files, w.dirs, <<>>, "full")

\* A call into the tracking service raises when the service fails at that call.
TrackingFails(st, calls) == st.fault \in calls

\* The value accuracy_score returns is the classifier's business; it is determined by
\* the data it is computed on, which the row count stands for.
accuracy_score(art) == art.rows

RunId == 1

\* train_model(train_data_path, model_path, metrics_path), def at line 683.
train_model(st, train, model, metrics) ==
    LET src == st.files[train]
        X   == src.columns \ {"therapy_category"}
        acc == accuracy_score(src)
        w   == WriteAll(st.files, st.dirs,
                        << <<model, Pickle("model", X), FALSE>>,
                           <<metrics, Json("metrics", acc), FALSE>> >>)
    IN IF ~ImportsResolve(st, {"pandas", "mlflow", "sklearn"})
       THEN Outcome("ImportError", <<>>, st.files, st.dirs, <<>>, "full")
       ELSE IF TrackingFails(st, {"set_tracking_uri", "set_experiment"})
       THEN Outcome("MlflowException", <<>>, st.files, st.dirs, <<>>, "full")
       ELSE IF ReadCsvError(st.files, train) # NoExc
       THEN Outcome(ReadCsvError(st.files, train), <<>>, st.files, st.dirs, <<>>, "full")
       ELSE IF "therapy_category" \notin src.columns
       THEN Outcome("KeyError", <<>>, st.files, st.dirs, <<>>, "full")
       ELSE IF TrackingFails(st, {"start_run", "log_param"})
       THEN Outcome("MlflowException", <<>>, st.files, st.dirs, <<>>, "full")
       \* RandomForestClassifier.fit converts every column of X to float
       ELSE IF ~(X \subseteq src.numeric) \/ src.rows < 1
       THEN Outcome("ValueError", <<>>, st.files, st.dirs, <<>>, "full")
       \* log_model falls back to log_artifact on AttributeError and ImportError only
       ELSE IF TrackingFails(st, {"log_metric", "log_model"})
       THEN Outcome("MlflowException", <<>>, st.files, st.dirs, <<>>, "full")
       ELSE IF ~w.ok
       THEN Outcome("FileNotFoundError", <<>>, w.files, w.dirs, <<>>, "full")
       ELSE Outcome(NoExc, <<acc, RunId>>, w.files, w.dirs, <<>>, "full")

\* evaluate_model(test_data_path, model_path, evaluation_path), def at line 766.
evaluate_model(st, test, model, evaluation) ==
    LET src == st.files[test]
        mdl == st.files[model]
        X   == src.columns \ {"therapy_category"}
        acc == accuracy_score(src)
        w   == WriteAll(st.files, st.dirs, << <<evaluation, Json("evaluation", acc), FALSE>> >>)
    IN IF ~ImportsResolve(st, {"pandas", "mlflow", "sklearn"})
       THEN Outcome("ImportError", <<>>, st.files, st.dirs, <<>>, "full")
       ELSE IF ReadCsvError(st.files, test) # NoExc
       THEN Outcome(ReadCsvError(st.files, test), <<>>, st.files, st.dirs, <<>>, "full")
       ELSE IF "therapy_category" \notin src.columns
       THEN Outcome("KeyError", <<>>, st.files, st.dirs, <<>>, "full")
       ELSE IF mdl.kind = "absent"
       THEN Outcome("FileNotFoundError", <<>>, st.files, st.dirs, <<>>, "full")
       ELSE IF mdl.kind # "pickle"
       THEN Outcome("DataError", <<>>, st.files, st.dirs, <<>>, "full")
       ELSE IF mdl.content # "model"
       THEN Outcome("AttributeError", <<>>, st.files, st.dirs, <<>>, "full")
       ELSE IF X # mdl.columns \/ ~(X \subseteq src.numeric)
       THEN Outcome("ValueError", <<>>, st.files, st.dirs, <<>>, "full")
       ELSE IF TrackingFails(st, {"set_tracking_uri", "start_run", "log_metric"})
       THEN Outcome("MlflowException", <<>>, st.files, st.dirs, <<>>, "full")
       ELSE IF ~w.ok
       THEN Outcome("FileNotFoundError", <<>>, w.files, w.dirs, <<>>, "full")
       ELSE Outcome(NoExc, <<acc, acc>>, w.files, w.dirs, <<>>, "full")

(* ---------- the pipeline graph ---------- *)

\* The graph without evaluate_op.after(train_op) and without the model_path edge.
AfterWithoutTrainEdge(s) ==
    CASE s = "generate"   -> {}
      [] s = "preprocess" -> {"generate"}
      [] s = "train"      -> {"preprocess"}
      [] s = "evaluate"   -> {"preprocess"}

\* The tasks a task waits for: the .after() edges of music_therapy_pipeline and the
\* edges its outputs[...] arguments induce (evaluate reads preprocess's test split
\* and train's model).
After(s) == CASE s = "generate"   -> {}
              [] s = "preprocess" -> {"generate"}
              [] s = "train"      -> {"preprocess"}
              [] s = "evaluate"   -> {"train", "preprocess"}

\* What a task of the graph runs: the function bound under the step's name, on the
\* artifact paths the graph threads through it.
StepBody(s, st, bound) ==
    CASE s = "generate"   -> generate_synthetic_data(st, "raw")
      [] s = "preprocess" -> IF bound = "def631"
                             THEN preprocess_data_631(st, "raw", "train", "test", "scaler")
                             ELSE preprocess_data_437(st, "raw", "train", "test", "validation", "scaler")
      [] s = "train"      -> train_model(st, "train", "model", "metrics")
      [] s = "evaluate"   -> evaluate_model(st, "test", "model", "evaluation")

(* ---------- state ---------- *)

Units == Steps \cup {"process"}

Unset == [n_samples |-> 0, n_features |-> 0, n_classes |-> 0, test_size |-> 0, validation_size |-> 0]

\* A service fault matters only where the service is used, and the split fractions
\* only in the def of line 437, which no run of the loaded module calls.
StartEnvironments ==
    {e \in Environments : /\ ~e.run_flag => e.submitFault = "none"
                          /\ "mlflow" \notin e.installed => e.trackFault = "none"
                          /\ e.TEST_SIZE = DefaultDataConfig.test_size
                          /\ e.VALIDATION_SIZE = DefaultDataConfig.validation_size}

\* step_name arguments of the module's error_handler regions.
RegionNames == {"Data Generation", "Data Generation - Data Quality Validation",
                "Data Preprocessing", "Preprocessing Input - Data Quality Validation"}

\* What the body of a region did, and what the code around the region received.
NotRun == [state |-> "unused", exc |-> NoExc, value |-> "none"]

NoFrames == [stack |-> <<>>, flying |-> NoExc,
             body |-> [n \in RegionNames |-> NotRun],
             caller |-> [n \in RegionNames |-> NotRun]]

NoReport == [status |-> "none", reason |-> "none", issues |-> <<>>]

NoGate == [phase |-> "idle",
           df |-> [n_rows |-> 0, missing_values |-> 0, duplicate_rows |-> 0],
           report |-> NoReport]

\* What a step body reads of the state.
BodyState == [installed |-> env.installed, deps |-> DEPENDENCIES, cfg |-> DATA_CONFIG,
              fault |-> env.trackFault, files |-> files, dirs |-> dirs]

Loaded == pc \in {"loaded", "exited"}

Finished(s) == status[s] \in {"succeeded", "failed"}

\* The interpreter starts: DEPENDENCIES holds its literal of line 88, nothing is bound.
Init ==
    /\ env \in StartEnvironments
    /\ DEPENDENCIES = [lib \in Libraries |-> FALSE]
    /\ DATA_CONFIG = Unset
    /\ pc = "start"
    /\ preprocess_data = "unbound"
    /\ status = [s \in Steps |-> "pending"]
    /\ raised = [u \in Units |-> NoExc]
    /\ result = [s \in Steps |-> <<>>]
    /\ files = [p \in Paths |-> Absent]
    /\ dirs \in {{}, {"data"}, Dirs}
    /\ log = <<>>
    /\ stdout = <<>>
    /\ tier = [s \in Steps |-> "none"]
    /\ cluster = <<>>
    /\ standard_scaler = NoScaler
    /\ frames = NoFrames
    /\ gate = NoGate

(* ---------- module load and the entry point ---------- *)

\* Line 158: check_and_import_dependencies().
Detect ==
    /\ pc = "start"
    /\ DEPENDENCIES' = check_and_import_dependencies(env.installed)
    /\ pc' = "detected"
    /\ UNCHANGED <<env, DATA_CONFIG, preprocess_data, status, raised, result, files, dirs,
                   log, stdout, tier, frames, gate, cluster, standard_scaler>>

\* Lines 175-207: the configuration dictionaries.
Configure ==
    /\ pc = "detected"
    /\ DATA_CONFIG' = ResolveDataConfig(env)
    /\ pc' = "configured"
    /\ UNCHANGED <<env, DEPENDENCIES, preprocess_data, status, raised, result, files, dirs,
                   log, stdout, tier, frames, gate, cluster, standard_scaler>>

\* The definition the name preprocess_data holds once lines 210-809 have run: the
\* def statement of line 631 rebinds the name the def of line 437 bound.
BoundPreprocess == "def631"

\* Lines 210-809: the def statements.
DefineSteps ==
    /\ pc = "configured"
    /\ preprocess_data' = BoundPreprocess
    /\ pc' = "defined"
    /\ UNCHANGED <<env, DEPENDENCIES, DATA_CONFIG, status, raised, result, files, dirs,
                   log, stdout, tier, frames, gate, cluster, standard_scaler>>

\* The names kfp and dsl are bound at line 304-305, only when the kfp flag is set.
KfpNamesBound(deps) == deps["kfp"]

\* Line 812: the decorator expression dsl.pipeline(...) is evaluated.
DefinePipeline ==
    /\ pc = "defined"
    /\ IF KfpNamesBound(DEPENDENCIES)
       THEN pc' = "loaded" /\ raised' = raised
       ELSE pc' = "load_failed" /\ raised' = [raised EXCEPT !["process"] = "NameError"]
    /\ UNCHANGED <<env, DEPENDENCIES, DATA_CONFIG, preprocess_data, status, result, files, dirs,
                   log, stdout, tier, frames, gate, cluster, standard_scaler>>

\* Lines 865-869: the client is built, then the experiment is looked up (an argument
\* of run_pipeline, so evaluated before the call), then the run is submitted.
SubmissionOrder == <<"Client", "get_experiment", "run_pipeline">>

\* The calls made on the cluster client when the call named fault fails.
Attempted(fault) ==
    IF fault = "none" THEN SubmissionOrder
    ELSE SubSeq(SubmissionOrder, 1, CHOOSE i \in 1..Len(SubmissionOrder) : SubmissionOrder[i] = fault)

\* What a failing client call raises.
SubmitRaises(fault) == IF fault = "none" THEN NoExc ELSE "ApiException"

MainCatchesNothing(exc) == FALSE

\* Line 882: except Exception.
MainCatches(exc) == exc \in Exceptions

\* What main prints: compilation, then with --run the submission or its diagnostic.
MainOutput(e) ==
    <<"Pipeline compiled">>
      \o (IF ~e.run_flag THEN <<>>
          ELSE IF e.submitFault = "none"
          THEN <<"Pipeline run submitted", "Monitor at">>
          ELSE IF MainCatches(SubmitRaises(e.submitFault))
          THEN <<"Could not submit pipeline run", "Make sure Kubeflow Pipelines is accessible">>
          ELSE <<>>)

\* Line 859: the client is touched only under --run.
MainCalls(e) == IF e.run_flag THEN Attempted(e.submitFault) ELSE <<>>

\* The exception leaving main.
MainRaises(e) ==
    IF e.run_flag /\ ~MainCatches(SubmitRaises(e.submitFault))
    THEN SubmitRaises(e.submitFault) ELSE NoExc

\* Lines 851-886: main(). setup_mlflow (line 861) returns a flag and raises nothing.
Main ==
    /\ pc = "loaded"
    /\ stdout' = stdout \o MainOutput(env)
    /\ cluster' = MainCalls(env)
    /\ raised' = [raised EXCEPT !["process"] = MainRaises(env)]
    /\ pc' = "exited"
    /\ UNCHANGED <<env, DEPENDENCIES, DATA_CONFIG, preprocess_data, status, result,
                   files, dirs, log, tier, frames, gate, standard_scaler>>

(* ---------- a run of the pipeline graph ---------- *)

\* The orchestrator starts a task whose every predecessor has succeeded.
StartStep(s) ==
    /\ Loaded
    /\ status[s] = "pending"
    /\ \A t \in After(s) : status[t] = "succeeded"
    /\ status' = [status EXCEPT ![s] = "running"]
    /\ UNCHANGED <<env, DEPENDENCIES, DATA_CONFIG, pc, preprocess_data, raised, result, files,
                   dirs, log, stdout, tier, frames, gate, cluster, standard_scaler>>

\* The scaler a preprocess invocation leaves behind: the mock branch and an
\* invocation that raised leave none.
ScalerAfter(bound, o) ==
    IF o.exc # NoExc \/ o.tier # "full" THEN NoScaler
    ELSE IF bound = "def631" THEN scaling_631(o.result[1], o.result[2])
    ELSE scaling_437(o.result[1], o.result[2], o.result[3])

\* The task runs the bound function to its return or to the exception leaving it.
FinishStep(s) ==
    /\ status[s] = "running"
    /\ LET o == StepBody(s, BodyState, preprocess_data)
       IN /\ status' = [status EXCEPT ![s] = IF o.exc = NoExc THEN "succeeded" ELSE "failed"]
          /\ raised' = [raised EXCEPT ![s] = o.exc]
          /\ result' = [result EXCEPT ![s] = o.result]
          /\ files' = o.files
          /\ dirs' = o.dirs
          /\ log' = log \o o.log
          /\ tier' = [tier EXCEPT ![s] = o.tier]
          /\ standard_scaler' = IF s = "preprocess" THEN ScalerAfter(preprocess_data, o)
                                ELSE standard_scaler
    /\ UNCHANGED <<env, DEPENDENCIES, DATA_CONFIG, pc, preprocess_data, stdout, frames, gate, cluster>>

Next ==
    \/ Detect
    \/ Configure
    \/ DefineSteps
    \/ DefinePipeline
    \/ Main
    \/ \E s \in Steps : StartStep(s)
    \/ \E s \in Steps : FinishStep(s)

Spec == Init /\ [][Next]_vars

(* ---------- claims about a run of the graph on the loaded module ---------- *)

AllAvailable == \A lib \in Libraries : DEPENDENCIES[lib]

\* The artifact paths a step declares as outputs in the pipeline graph.
DeclaredOutputs(s) ==
    CASE s = "generate"   -> {"raw"}
      [] s = "preprocess" -> {"train", "validation", "test", "scaler"}
      [] s = "train"      -> {"model", "metrics"}
      [] s = "evaluate"   -> {"evaluation"}

\* No task is running and none can start.
RunEnded == Loaded /\ \A s \in Steps : status[s] # "running" /\ ~ENABLED StartStep(s)

\* C1: with tabular_engine and ml_engine both unavailable, a run of the bound step
\* functions raises out of no step, every step that ran left a placeholder (JSON)
\* artifact at each of its declared output paths, and the run ends in 'evaluated'.
C1_DegradedRunReachesEvaluated ==
    (pc # "start" /\ ~DEPENDENCIES["pandas"] /\ ~DEPENDENCIES["sklearn"]) =>
        /\ \A s \in Steps : status[s] # "failed"
        /\ \A s \in Steps : status[s] = "succeeded" =>
               \A p \in DeclaredOutputs(s) : files[p].kind = "json"
        /\ RunEnded => status["evaluate"] = "succeeded"

\* The input artifact a step reads as a table, and the columns it reads from it: the
\* target by name, every other column as a numeric feature.
TableInput(s) ==
    CASE s = "preprocess" -> "raw"
      [] s = "train"      -> "train"
      [] s = "evaluate"   -> "test"
      [] OTHER            -> "none"

ContractViolations == {"KeyError", "ValueError", "DataError", "FileNotFoundError"}

\* C2: in full tier under the default configuration no step of a run raises a
\* data-contract violation: a step that runs finds the target column in the artifact
\* its predecessor wrote, and every column it treats as a numeric feature is numeric.
C2_FullTierDataContract ==
    (AllAvailable /\ DATA_CONFIG = DefaultDataConfig /\ env.trackFault = "none" /\ dirs = Dirs) =>
        \A s \in Steps \ {"generate"} :
            /\ raised[s] \notin ContractViolations
            /\ status[s] = "running" =>
                 /\ "therapy_category" \in files[TableInput(s)].columns
                 /\ files[TableInput(s)].columns \ {"therapy_category"}
                        \subseteq files[TableInput(s)].numeric

\* C3: generate and preprocess take the full path iff tabular_engine, numeric_engine
\* and ml_engine are all available, whatever tracking_service and cluster_sdk are, and
\* the two resolve to the same tier.
C3_TierSelection ==
    /\ \A s \in {"generate", "preprocess"} :
          tier[s] # "none" =>
             (tier[s] = "full" <=>
                 (DEPENDENCIES["pandas"] /\ DEPENDENCIES["numpy"] /\ DEPENDENCIES["sklearn"]))
    /\ (tier["generate"] # "none" /\ tier["preprocess"] # "none") =>
           tier["generate"] = tier["preprocess"]

\* C9: in degraded tier generate returns (configured samples, configured features),
\* (1000, 10) under the defaults, and the preprocess step of the pipeline returns
\* (800, 100, 100).
C9_DegradedReturnValues ==
    (pc # "start" /\ ~FullBranch(DEPENDENCIES)) =>
        /\ Finished("generate") =>
              /\ result["generate"] = <<DATA_CONFIG.n_samples, DATA_CONFIG.n_features>>
              /\ DATA_CONFIG = DefaultDataConfig => result["generate"] = <<1000, 10>>
        /\ Finished("preprocess") => result["preprocess"] = <<800, 100, 100>>

\* C10: whatever capabilities are absent, process start and the entry point raise
\* nothing, detection has recorded available=false for each capability that does not
\* resolve, and without cluster_sdk nothing is compiled or submitted.
C10_AbsenceNeverRaises ==
    /\ raised["process"] = NoExc
    /\ pc # "load_failed"
    /\ pc # "start" => \A lib \in Libraries : lib \notin env.installed => ~DEPENDENCIES[lib]
    /\ "kfp" \notin env.installed => stdout = <<>>

\* A line main has printed.
Printed(line) == \E i \in DOMAIN stdout : stdout[i] = line

\* C11: under the submit flag a failure of the connection, of the experiment lookup
\* or of the submission is caught: the diagnostic is printed, no run id and no
\* monitoring URL is printed, no later client call is made, and main returns
\* normally; without the flag no client call is made at all.
C11_SubmissionFailureContained ==
    /\ (pc = "exited" /\ env.run_flag /\ env.submitFault # "none") =>
          /\ Printed("Could not submit pipeline run")
          /\ Printed("Make sure Kubeflow Pipelines is accessible")
          /\ ~Printed("Pipeline run submitted")
          /\ ~Printed("Monitor at")
          /\ raised["process"] = NoExc
          /\ cluster # <<>> /\ cluster[Len(cluster)] = env.submitFault
    /\ ~env.run_flag => cluster = <<>>

C11_Witness ==
    /\ pc = "exited"
    /\ env.run_flag
    /\ env.submitFault = "get_experiment"
    /\ cluster = <<"Client", "get_experiment">>
    /\ Printed("Could not submit pipeline run")

(* ---------- the graph under every outcome of the step bodies ---------- *)

\* One environment per installation and configuration: the graph's order does not
\* read the service faults, the flag or the directories.
InitGraph ==
    /\ Init
    /\ ~env.run_flag
    /\ env.trackFault = "none"
    /\ dirs = Dirs

\* A task ends: it returned, or some exception left it.
FinishAnyhow(s) ==
    /\ status[s] = "running"
    /\ \E e \in {NoExc} \cup Exceptions \cup BaseOnlyExceptions :
          /\ status' = [status EXCEPT ![s] = IF e = NoExc THEN "succeeded" ELSE "failed"]
          /\ raised' = [raised EXCEPT ![s] = e]
    /\ UNCHANGED <<env, DEPENDENCIES, DATA_CONFIG, pc, preprocess_data, result, files, dirs,
                   log, stdout, tier, frames, gate, cluster, standard_scaler>>

NextGraph ==
    \/ Detect
    \/ Configure
    \/ DefineSteps
    \/ DefinePipeline
    \/ \E s \in Steps : StartStep(s)
    \/ \E s \in Steps : FinishAnyhow(s)

SpecGraph == InitGraph /\ [][NextGraph]_vars

Position(s) == CHOOSE i \in DOMAIN StepOrder : StepOrder[i] = s

Starts(s) == status[s] # "running" /\ status'[s] = "running"

\* C4: steps start in the order generate, preprocess, train, evaluate; a step starts
\* only when every step before it has succeeded, no other step is running, no step
\* has failed and no later step has started; a step that has ended never runs again.
C4_StrictOrder ==
    [][\A s \in Steps :
          /\ Starts(s) =>
                /\ status[s] = "pending"
                /\ \A t \in Steps : Position(t) < Position(s) => status[t] = "succeeded"
                /\ \A t \in Steps : Position(t) > Position(s) => status[t] = "pending"
                /\ \A t \in Steps : status[t] \notin {"running", "failed"}
          /\ Finished(s) => status'[s] = status[s]]_vars

\* C4's case: train has failed after generate and preprocess succeeded, evaluate waits.
C4_Witness ==
    /\ status["generate"] = "succeeded"
    /\ status["preprocess"] = "succeeded"
    /\ status["train"] = "failed"
    /\ status["evaluate"] = "pending"

(* ---------- one step called on a store the caller prepared ---------- *)

\* A table as the generator left in the tail of the first preprocess_data writes it,
\* which is the layout train_model and evaluate_model read: ten numeric features and
\* a numeric therapy_category.
LegacyTable(n) == Csv(LegacyFeatureNames \cup {"therapy_category"},
                      LegacyFeatureNames \cup {"therapy_category"}, n)

\* A split as the first preprocess_data writes it.
SplitTable(n) ==
    Csv(FeatureNames \cup EngineeredColumns \cup {"therapy_category_encoded", "split_type", "processing_metadata"},
        FeatureNames \cup EngineeredColumns \cup {"therapy_category_encoded"}, n)

Stores ==
    {[p \in Paths |->
        CASE p = "raw"   -> r
          [] p = "train" -> tr
          [] p = "test"  -> te
          [] p = "model" -> m
          [] OTHER       -> Absent] :
      r  \in {Absent, Csv(GeneratedColumns, GeneratedNumeric, 1000), LegacyTable(1000),
              Csv(LegacyFeatureNames, LegacyFeatureNames, 1000)},
      tr \in {Absent, LegacyTable(800), SplitTable(700)},
      te \in {Absent, LegacyTable(200), SplitTable(200)},
      m  \in {Absent, Pickle("model", LegacyFeatureNames), Json("mock", 100)}}

\* The module has loaded (which takes kfp) under the default configuration.
InitStep ==
    /\ env \in {e \in StartEnvironments : /\ "kfp" \in e.installed
                                          /\ ~e.run_flag
                                          /\ ResolveDataConfig(e) = DefaultDataConfig}
    /\ DEPENDENCIES = check_and_import_dependencies(env.installed)
    /\ DATA_CONFIG = ResolveDataConfig(env)
    /\ pc = "loaded"
    /\ preprocess_data = BoundPreprocess
    /\ status = [s \in Steps |-> "pending"]
    /\ raised = [u \in Units |-> NoExc]
    /\ result = [s \in Steps |-> <<>>]
    /\ files \in Stores
    /\ dirs \in {{"data"}, Dirs}
    /\ log = <<>>
    /\ stdout = <<>>
    /\ tier = [s \in Steps |-> "none"]
    /\ cluster = <<>>
    /\ standard_scaler = NoScaler
    /\ frames = NoFrames
    /\ gate = NoGate

\* A caller invokes one step function.
CallStep(s) ==
    /\ Loaded
    /\ \A t \in Steps : status[t] = "pending"
    /\ status' = [status EXCEPT ![s] = "running"]
    /\ UNCHANGED <<env, DEPENDENCIES, DATA_CONFIG, pc, preprocess_data, raised, result, files,
                   dirs, log, stdout, tier, frames, gate, cluster, standard_scaler>>

NextStep ==
    \/ \E s \in Steps : CallStep(s)
    \/ \E s \in Steps : FinishStep(s)

SpecStep == InitStep /\ [][NextStep]_vars

Ends(s) == status[s] = "running" /\ status'[s] # "running"

\* The tracking calls train_model makes.
TrainTrackingCalls == {"set_tracking_uri", "set_experiment", "start_run",
                       "log_param", "log_metric", "log_model"}

\* C5: with tracking_service available, a tracking call that fails during train does
\* not change train: it raises nothing the run without the failure would not raise,
\* writes the same model and metrics artifacts and returns the same accuracy.
C5_TrackingFailureIsolated ==
    [][(Ends("train") /\ DEPENDENCIES["mlflow"] /\ env.trackFault \in TrainTrackingCalls) =>
          LET ref == train_model([BodyState EXCEPT !.fault = "none"], "train", "model", "metrics")
          IN /\ raised'["train"] = ref.exc
             /\ result'["train"] = ref.result
             /\ files' = ref.files]_vars

\* C6: with tracking_service absent and every other capability present, train and
\* evaluate raise nothing, write the same local artifacts and return the same values
\* as with tracking present.
C6_TrackingAbsentIsNoOp ==
    [][\A s \in {"train", "evaluate"} :
          (Ends(s) /\ env.installed = Libraries \ {"mlflow"}) =>
              LET ref == StepBody(s, [BodyState EXCEPT !.installed = Libraries], preprocess_data)
              IN /\ raised'[s] = ref.exc
                 /\ result'[s] = ref.result
                 /\ files' = ref.files]_vars

\* The input of preprocess loads and carries the target column.
HasTarget(f) == ReadCsvError(f, "raw") = NoExc /\ "therapy_category" \in f["raw"].columns

\* Every feature column of the input is numeric.
FeaturesLoad(f) == (f["raw"].columns \ NonFeatureColumns) \subseteq f["raw"].numeric

\* C12: full-tier preprocess on an input that does not load or lacks the target
\* column fails, the failure is logged by error_handler under the step's name, the
\* exception reaches the caller and no artifact is written; an input with the target
\* column and numeric features is not rejected as a data-contract violation.
C12_PreprocessDataContract ==
    [][(Ends("preprocess") /\ FullBranch(DEPENDENCIES)) =>
          /\ ~HasTarget(files) =>
                /\ raised'["preprocess"] # NoExc
                /\ Len(log') > Len(log)
                /\ log'[Len(log')] = LogEntry("failed", "Data Preprocessing", raised'["preprocess"])
                /\ files' = files
          /\ (HasTarget(files) /\ FeaturesLoad(files)) =>
                raised'["preprocess"] \notin {"KeyError", "ValueError", "DataError"}]_vars

\* |a - b|
Distance(a, b) == IF a >= b THEN a - b ELSE b - a

\* C13: a full-tier preprocess that succeeds on N rows leaves three splits that
\* partition the input, the test split within one row of N/5 and the validation
\* split within one row of N/10; 1000 rows give 700 / 100 / 200.
C13_ThreeSplitsPartition ==
    [][(Ends("preprocess") /\ FullBranch(DEPENDENCIES) /\ raised'["preprocess"] = NoExc) =>
          LET N  == files["raw"].rows
              tr == files'["train"]
              va == files'["validation"]
              te == files'["test"]
          IN /\ tr.kind = "csv" /\ va.kind = "csv" /\ te.kind = "csv"
             /\ tr.rows + va.rows + te.rows = N
             /\ Distance(5 * te.rows, N) <= 5
             /\ Distance(10 * va.rows, N) <= 10
             /\ N = 1000 => <<tr.rows, va.rows, te.rows>> = <<700, 100, 200>>]_vars

\* The paths a body writes when every directory exists.
Written(before, after) == {p \in Paths : after[p] # before[p]}

\* C14: every step creates the parent directory of an artifact before writing it:
\* a step that reaches its writes when all directories exist reaches them as well
\* when they do not, raises nothing on the way, and leaves each parent in place.
C14_DirectoryBeforeWrite ==
    [][\A s \in Steps :
          Ends(s) =>
              LET ref == StepBody(s, [BodyState EXCEPT !.dirs = Dirs], preprocess_data)
              IN ref.exc = NoExc =>
                     /\ raised'[s] = NoExc
                     /\ files' = ref.files
                     /\ \A p \in Written(files, ref.files) : Parent(p) \in dirs']_vars

\* C15: every execution of a step function is one error_handler region: the first
\* entry it logs is a start entry, and the last is the completion or the failure
\* entry of the same region.
C15_EveryStepInRegion ==
    [][\A s \in Steps :
          Ends(s) =>
              /\ Len(log') >= Len(log) + 2
              /\ log'[Len(log) + 1].kind = "start"
              /\ log'[Len(log')].kind \in {"completed", "failed"}
              /\ log'[Len(log')].step = log'[Len(log) + 1].step
              /\ log'[Len(log')].kind = "failed" <=> raised'[s] # NoExc]_vars

\* The parameters a fit leaves in the scaler.
FittedParams(sc) == <<sc.fitted_on, sc.n_samples_seen>>

\* The scaler sc of an invocation on input of N rows that left stores f: one fit, the
\* first call, on the train split as written (so after the split, on fewer than N
\* rows); every later call a transform of another split; the parameters those of the
\* fit; the object at the transformer path carrying the same parameters.
FittedOnceOnTrain(sc, f, N) ==
    /\ sc.fits = 1
    /\ sc.calls # <<>> /\ sc.calls[1] = <<"fit_transform", "train">>
    /\ \A i \in 2..Len(sc.calls) :
          sc.calls[i][1] = "transform" /\ sc.calls[i][2] \in {"validation", "test"}
    /\ \E i \in 2..Len(sc.calls) : sc.calls[i][2] = "test"
    /\ FittedParams(sc) = <<"train", f["train"].rows>>
    /\ f["train"].rows < N
    /\ f["scaler"].kind = "pickle"
    /\ f["scaler"].rows = sc.n_samples_seen

\* C16: a preprocess invocation that returns has fitted its scaler once, on the
\* train split and after splitting, has only transformed the other splits, which
\* left the fitted parameters alone, and has persisted that fitted scaler; this
\* holds of the bound definition and of the definition of line 437 on the same input.
C16_ScalerFittedOnceOnTrain ==
    [][(Ends("preprocess") /\ FullBranch(DEPENDENCIES)) =>
          LET N   == files["raw"].rows
              alt == preprocess_data_437(BodyState, "raw", "train", "test", "validation", "scaler")
          IN /\ raised'["preprocess"] = NoExc =>
                   FittedOnceOnTrain(standard_scaler', files', N)
             /\ alt.exc = NoExc =>
                   /\ FittedOnceOnTrain(ScalerAfter("def437", alt), alt.files, N)
                   /\ \E i \in 2..Len(ScalerAfter("def437", alt).calls) :
                         ScalerAfter("def437", alt).calls[i][2] = "validation"]_vars

C16_Witness ==
    /\ status["preprocess"] = "succeeded"
    /\ standard_scaler.calls = << <<"fit_transform", "train">>, <<"transform", "test">> >>
    /\ standard_scaler.n_samples_seen = 800
    /\ files["scaler"].rows = 800

(* ---------- module load under every configuration ---------- *)

\* Every value of the environment variables; no service is reached while loading.
InitConfig ==
    /\ env \in {e \in Environments : /\ ~e.run_flag
                                     /\ e.trackFault = "none"
                                     /\ e.submitFault = "none"}
    /\ DEPENDENCIES = [lib \in Libraries |-> FALSE]
    /\ DATA_CONFIG = Unset
    /\ pc = "start"
    /\ preprocess_data = "unbound"
    /\ status = [s \in Steps |-> "pending"]
    /\ raised = [u \in Units |-> NoExc]
    /\ result = [s \in Steps |-> <<>>]
    /\ files = [p \in Paths |-> Absent]
    /\ dirs = Dirs
    /\ log = <<>>
    /\ stdout = <<>>
    /\ tier = [s \in Steps |-> "none"]
    /\ cluster = <<>>
    /\ standard_scaler = NoScaler
    /\ frames = NoFrames
    /\ gate = NoGate

NextConfig ==
    \/ Detect
    \/ Configure
    \/ DefineSteps
    \/ DefinePipeline

SpecConfig == InitConfig /\ [][NextConfig]_vars

\* C17: once DATA_CONFIG is resolved, test_size + validation_size < 1 whatever the
\* environment supplies, so that val_size_adjusted = validation_size / (1 - test_size)
\* is defined and strictly below 1.
C17_FractionsBelowOne ==
    pc \notin {"start", "detected"} =>
        /\ DATA_CONFIG.test_size + DATA_CONFIG.validation_size < 100
        /\ DATA_CONFIG.test_size # 100
        /\ DATA_CONFIG.validation_size < 100 - DATA_CONFIG.test_size

(* ---------- error_handler around every body ---------- *)

BodyValues == {"r1", "r2"}

\* The module has loaded with every library present; nothing else has run.
InitLoaded ==
    /\ DEPENDENCIES = check_and_import_dependencies(env.installed)
    /\ DATA_CONFIG = ResolveDataConfig(env)
    /\ pc = "loaded"
    /\ preprocess_data = BoundPreprocess
    /\ status = [s \in Steps |-> "pending"]
    /\ raised = [u \in Units |-> NoExc]
    /\ result = [s \in Steps |-> <<>>]
    /\ files = [p \in Paths |-> Absent]
    /\ dirs = Dirs
    /\ log = <<>>
    /\ stdout = <<>>
    /\ tier = [s \in Steps |-> "none"]
    /\ cluster = <<>>
    /\ standard_scaler = NoScaler

InitExec ==
    /\ env \in {e \in StartEnvironments : /\ e.installed = Libraries
                                          /\ ~e.run_flag
                                          /\ e.trackFault = "none"
                                          /\ ResolveDataConfig(e) = DefaultDataConfig}
    /\ InitLoaded
    /\ frames = NoFrames
    /\ gate = NoGate

Top == frames.stack[Len(frames.stack)]

Pop(st) == SubSeq(st, 1, Len(st) - 1)

\* with error_handler(name): the generator runs to its yield.
EnterRegion(name) ==
    /\ frames.flying = NoExc
    /\ Len(frames.stack) < MaxDepth
    /\ frames.body[name].state = "unused"
    /\ log' = log \o HandlerEntry(name)
    /\ frames' = [frames EXCEPT !.stack = Append(@, name),
                                !.body[name] = [state |-> "open", exc |-> NoExc, value |-> "none"]]
    /\ UNCHANGED <<env, DEPENDENCIES, DATA_CONFIG, pc, preprocess_data, status, raised, result,
                   files, dirs, stdout, tier, gate, cluster, standard_scaler>>

\* The innermost region is left by exception e (NoExc: its body completed with v).
LeaveRegion(e, v) ==
    /\ log' = log \o HandlerExit(Top, e)
    /\ frames' = [frames EXCEPT
                    !.stack = Pop(@),
                    !.flying = HandlerReraise(e),
                    !.body[Top] = [state |-> IF e = NoExc THEN "returned" ELSE "raised",
                                   exc |-> e, value |-> v],
                    !.caller[Top] = [state |-> "received", exc |-> HandlerReraise(e),
                                     value |-> IF HandlerReraise(e) = NoExc THEN v ELSE "none"]]
    /\ UNCHANGED <<env, DEPENDENCIES, DATA_CONFIG, pc, preprocess_data, status, raised, result,
                   files, dirs, stdout, tier, gate, cluster, standard_scaler>>

\* The body of the innermost region completes (or returns) with a value.
BodyReturns ==
    /\ frames.flying = NoExc
    /\ frames.stack # <<>>
    /\ \E v \in BodyValues : LeaveRegion(NoExc, v)

\* The body of the innermost region raises.
BodyRaises ==
    /\ frames.flying = NoExc
    /\ frames.stack # <<>>
    /\ \E e \in Exceptions \cup BaseOnlyExceptions : LeaveRegion(e, "none")

\* An exception that left an inner region leaves the body of the region around it.
Propagate ==
    /\ frames.flying # NoExc
    /\ frames.stack # <<>>
    /\ LeaveRegion(frames.flying, "none")

NextExec ==
    \/ \E name \in RegionNames : EnterRegion(name)
    \/ BodyReturns
    \/ BodyRaises
    \/ Propagate

SpecExec == InitExec /\ [][NextExec]_vars

Entries(k, name) == {i \in DOMAIN log : log[i].kind = k /\ log[i].step = name}

\* The start entry of a region that was entered is its first entry, and its only start.
StartLoggedFirst(n) ==
    frames.body[n].state # "unused" =>
        /\ Cardinality(Entries("start", n)) = 1
        /\ \A i \in Entries("start", n) : \A j \in DOMAIN log : log[j].step = n => i <= j

\* A body that completed: one completion entry, no failure entry, its value delivered.
CompletionLogged(n) ==
    frames.body[n].state = "returned" =>
        /\ Cardinality(Entries("completed", n)) = 1
        /\ Entries("failed", n) = {}
        /\ frames.caller[n].exc = NoExc
        /\ frames.caller[n].value = frames.body[n].value

\* A body that failed: one failure entry naming the step, no completion entry.
FailureLogged(n) ==
    /\ Cardinality(Entries("failed", n)) = 1
    /\ \A i \in Entries("failed", n) : log[i].exc = frames.body[n].exc
    /\ Entries("completed", n) = {}

\* The caller gets the very exception that left the body.
SameExceptionPropagates(n) ==
    /\ frames.caller[n].exc = frames.body[n].exc
    /\ frames.caller[n].value = "none"

\* C7 as stated: a body that fails in any way gets exactly one failure entry.
C7_AnyFailureLogged ==
    \A n \in RegionNames :
        /\ StartLoggedFirst(n)
        /\ CompletionLogged(n)
        /\ frames.body[n].state = "raised" => (FailureLogged(n) /\ SameExceptionPropagates(n))

\* C7 amended: a start entry precedes the body; a body that completes gets exactly one
\* completion entry and its result reaches the caller; a body left by an exception
\* derived from Exception gets exactly one failure entry naming the step and no
\* completion entry; a body left by an exception derived from BaseException only
\* (KeyboardInterrupt, SystemExit) gets neither entry; in both cases the very same
\* exception propagates to the caller.
C7_ExceptionFailureLogged ==
    \A n \in RegionNames :
        /\ StartLoggedFirst(n)
        /\ CompletionLogged(n)
        /\ frames.body[n].state = "raised" =>
              /\ SameExceptionPropagates(n)
              /\ frames.body[n].exc \in Exceptions => FailureLogged(n)
              /\ frames.body[n].exc \in BaseOnlyExceptions =>
                    (Entries("failed", n) = {} /\ Entries("completed", n) = {})

\* C7's case: an inner body raised, the exception crossed two regions, and another
\* region had completed before.
C7_Witness ==
    /\ frames.stack = <<>>
    /\ \E a, b \in RegionNames :
          /\ a # b
          /\ frames.body[a].state = "raised" /\ frames.body[a].exc = "ValueError"
          /\ frames.body[b].state = "raised" /\ frames.caller[b].exc = "ValueError"
          /\ Cardinality(Entries("failed", a)) = 1
          /\ Cardinality(Entries("failed", b)) = 1

(* ---------- the data quality check on every frame ---------- *)

\* Frames by what the check reads of them; a frame of no rows has no nulls and no
\* duplicates, and at most all rows but one duplicate an earlier row.
GateFrames ==
    {df \in [n_rows : {0} \cup ((LowSampleThreshold - RowSpan) .. (LowSampleThreshold + RowSpan)),
             missing_values : 0 .. MaxMissing,
             duplicate_rows : 0 .. MaxDuplicates] :
        /\ df.n_rows = 0 => df.missing_values = 0
        /\ df.duplicate_rows <= (IF df.n_rows = 0 THEN 0 ELSE df.n_rows - 1)}

InitGate ==
    /\ env \in {e \in StartEnvironments : /\ {"kfp", "mlflow"} \subseteq e.installed
                                          /\ ~e.run_flag
                                          /\ e.trackFault = "none"
                                          /\ ResolveDataConfig(e) = DefaultDataConfig}
    /\ InitLoaded
    /\ frames = NoFrames
    /\ gate \in {[phase |-> "called", df |-> df, report |-> NoReport] : df \in GateFrames}

\* validate_data_quality(df, "Direct") runs to its return.
Validate ==
    /\ gate.phase = "called"
    /\ gate' = [gate EXCEPT !.phase = "returned", !.report = QualityReport(gate.df, DEPENDENCIES)]
    /\ log' = log \o validate_data_quality(gate.df, "Direct", DEPENDENCIES)
    /\ UNCHANGED <<env, DEPENDENCIES, DATA_CONFIG, pc, preprocess_data, status, raised, result,
                   files, dirs, stdout, tier, frames, cluster, standard_scaler>>

NextGate == Validate

SpecGate == InitGate /\ [][NextGate]_vars

\* The reference: the three checks in their fixed order, with the count each reports.
IssueHolds(df, label) ==
    CASE label = "Missing values"   -> df.missing_values > 0
      [] label = "Duplicate rows"   -> df.duplicate_rows > 0
      [] label = "Low sample count" -> df.n_rows < 100

IssueCount(df, label) ==
    CASE label = "Missing values"   -> df.missing_values
      [] label = "Duplicate rows"   -> df.duplicate_rows
      [] label = "Low sample count" -> df.n_rows

IssueOrder == <<"Missing values", "Duplicate rows", "Low sample count">>

Labels(issues) == [i \in DOMAIN issues |-> issues[i][1]]

\* C8: the report is 'skipped' with a reason iff tabular_engine is absent; otherwise
\* its issues are exactly the sub-list of [missing values, duplicate rows, low sample
\* count] whose condition holds (count > 0, count > 0, rows < 100), in that order, and
\* its status is 'warning' iff there is an issue and 'passed' otherwise.
C8_QualityReportReference ==
    gate.phase = "returned" =>
        /\ gate.report.status = "skipped" <=> "pandas" \notin env.installed
        /\ gate.report.status = "skipped" => gate.report.reason # "none"
        /\ gate.report.status # "skipped" =>
              /\ Labels(gate.report.issues)
                    = SelectSeq(IssueOrder, LAMBDA l : IssueHolds(gate.df, l))
              /\ \A i \in DOMAIN gate.report.issues :
                    gate.report.issues[i][2] = IssueCount(gate.df, gate.report.issues[i][1])
              /\ gate.report.status = (IF gate.report.issues # <<>> THEN "warning" ELSE "passed")
        /\ Entries("failed", "Direct - Data Quality Validation") = {}

\* C8's case: a frame with all three issues, and the check ran with the tabular engine.
C8_Witness ==
    /\ gate.phase = "returned"
    /\ gate.report.status = "warning"
    /\ Len(gate.report.issues) = 3

====
